---- MODULE Spec2Model ----
(***************************************************************************)
(* Model of scripts/sync_mirror.py: one batch run of the mirror sync       *)
(* (main -> sync_prs), step by step at the granularity of its external     *)
(* calls (gh / git), against a model of the two collaborators: the         *)
(* upstream repository (read only) and the fork (its open PRs and the      *)
(* branches of its remote "origin").  Runs may be repeated.                *)
(***************************************************************************)
EXTENDS Integers, Sequences, FiniteSets, TLC

VARIABLES
    upstream,           \* upstream repository: its open PRs (set of records)
    listing,            \* order in which the platform lists them (PR numbers)
    interrupted,        \* the previous run was terminated from outside
    fork,               \* fork repository: PR number -> PR record (open and closed)
    origin,             \* fork remote: branch name -> tip commit
    local,              \* local clone: branch name -> tip commit
    pc,                 \* position of the process inside main / sync_prs
    run,                \* number of the current run
    nfail,              \* faults so far: failed calls and terminations
    upstream_prs,       \* sync_prs: list returned by get_upstream_prs
    fork_prs,           \* sync_prs: dict returned by get_fork_prs
    fork_list,          \* get_fork_prs: the list `prs` the dict is built from
    upstream_branches,  \* sync_prs: set of expected branch names
    created, updated, unchanged, failed, closed,   \* sync_prs counters
    i,                  \* index of the for loop over upstream_prs_sorted
    j,                  \* index of the for loop over fork_prs.items()
    branch_name,        \* branch name of the PR being processed
    branch_updated,     \* create_or_update_pr: branch_updated
    results,            \* values returned by create_or_update_pr, in order
    calls,              \* external calls issued in this run, in order
    steps,              \* steps the process has taken in this run
    exit_code           \* exit status of the process: <<>> while it runs

vars == <<upstream, listing, interrupted, fork, origin, local, pc, run, nfail, upstream_prs, fork_prs,
          fork_list, upstream_branches, created, updated, unchanged, failed,
          closed, i, j, branch_name, branch_updated, results, calls, steps,
          exit_code>>

----------------------------------------------------------------------------
(* Bounds of the model *)

MaxPR == 3          \* upstream PR numbers are 1..MaxPR
MaxForkPRs == 2     \* fork PRs that exist before the first run
MaxOpen == 4        \* open PRs of the two repositories together, before the first run
MaxRuns == 2        \* consecutive runs of the script
MaxFailures == 1    \* faults in one behaviour: failed calls and terminations

(* Program constants *)

UPSTREAM_REPO == "facebook/react"

(* variant: the fork repository taken to be the upstream repository *)
FORK_REPO_mistaken == "facebook/react"

FORK_REPO == "greptileai/react-mirror"

(* Input alphabets *)

Heads == {"a", "a-1"}           \* head branch names of upstream PRs
LabelNames == {"bug", "ui"}     \* label names
Bases == {"main", "dev"}        \* base branch names
OldCommit == "old"
BaseCommit == "base"

----------------------------------------------------------------------------
(* Generic helpers *)

Max(S) == CHOOSE m \in S : \A n \in S : n <= m

Min(S) == CHOOSE m \in S : \A n \in S : m <= n

RECURSIVE SeqDescending(_)
(* the records of S as a list, newest (largest number) first: the order in
   which `gh pr list` returns PRs *)
SeqDescending(S) ==
    IF S = {} THEN <<>>
    ELSE LET top == CHOOSE r \in S : \A q \in S : q.number <= r.number
         IN  <<top>> \o SeqDescending(S \ {top})

RECURSIVE Insert(_, _)
Insert(r, s) ==
    IF s = <<>> THEN <<r>>
    ELSE IF r.number < Head(s).number THEN <<r>> \o s
    ELSE <<Head(s)>> \o Insert(r, Tail(s))

RECURSIVE sorted(_)
(* sorted(upstream_prs, key=lambda x: x["number"]): stable insertion sort *)
sorted(s) ==
    IF s = <<>> THEN <<>>
    ELSE Insert(s[Len(s)], sorted(SubSeq(s, 1, Len(s) - 1)))

Range(s) == {s[k] : k \in DOMAIN s}

(* the orders in which k PRs can be listed *)
Orders(k) == {o \in [1..k -> 1..k] : \A x, y \in 1..k : x # y => o[x] # o[y]}

(* newest first: the default order of `gh pr list` *)
NewestFirst(k) == [x \in 1..k |-> k + 1 - x]

----------------------------------------------------------------------------
(* Pure functions of the script *)

HeadCommit(n) == "c" \o ToString(n)     \* head commit of upstream PR n

BaseOf(n) == IF n % 2 = 1 THEN "main" ELSE "dev"    \* base branch of upstream PR n

(* variant: the count test off by one *)
get_branch_name_off_by_one(pr, all_prs) ==
    LET head_ref == pr.headRefName
        count == Cardinality({k \in DOMAIN all_prs : all_prs[k].headRefName = head_ref})
    IN  IF count > 0 THEN head_ref \o "-" \o ToString(pr.number) ELSE head_ref

get_branch_name(pr, all_prs) ==
    LET head_ref == pr.headRefName
        count == Cardinality({k \in DOMAIN all_prs : all_prs[k].headRefName = head_ref})
    IN  IF count > 1 THEN head_ref \o "-" \o ToString(pr.number) ELSE head_ref

get_label_names(pr) == {label.name : label \in pr.labels}

build_pr_body(pr_num, author, body) ==
    "**Mirror of [" \o UPSTREAM_REPO \o "#" \o ToString(pr_num)
        \o "](https://github.com/" \o UPSTREAM_REPO \o "/pull/" \o ToString(pr_num) \o ")**\n"
        \o "**Original author:** " \o author \o " \n\n---\n\n" \o body

LabelsOf(names) == {[name |-> l] : l \in names}

----------------------------------------------------------------------------
(* Records of the two platforms *)

(* one element of the JSON list `gh pr list --repo UPSTREAM_REPO` returns *)
UpstreamPR(n, head, draft, names) ==
    [number |-> n, title |-> "T", baseRefName |-> BaseOf(n), headRefName |-> head,
     headRefOid |-> HeadCommit(n), body |-> "B", author |-> [login |-> "u"],
     labels |-> LabelsOf(names), isDraft |-> draft]

(* a PR of the fork repository, as the platform stores it *)
ForkPR(num, head, base, title, body, names, draft) ==
    [number |-> num, id |-> "PR_" \o ToString(num), headRefName |-> head,
     baseRefName |-> base, title |-> title, body |-> body,
     labels |-> LabelsOf(names), isDraft |-> draft, state |-> "OPEN"]

(* the mirror PR an earlier run created for upstream PR k on branch head:
   up to date (fresh), or made when the upstream PR had other metadata *)
Mirror(num, k, head, fresh) ==
    IF fresh
    THEN ForkPR(num, head, BaseOf(k), "T", build_pr_body(k, "u", "B"), {"bug"}, FALSE)
    ELSE ForkPR(num, head, BaseOf(k), "old", build_pr_body(k, "u", "old"), {"ui"}, TRUE)

EmptyMap == [x \in {} |-> ""]

OpenPRs(f) == {f[n] : n \in {m \in DOMAIN f : f[m].state = "OPEN"}}

----------------------------------------------------------------------------
(* Initial states *)

InitLocals ==
    /\ local = EmptyMap
    /\ interrupted = FALSE
    /\ pc = "start"
    /\ run = 1
    /\ nfail = 0
    /\ upstream_prs = <<>>
    /\ fork_prs = EmptyMap
    /\ fork_list = <<>>
    /\ upstream_branches = {}
    /\ created = 0 /\ updated = 0 /\ unchanged = 0 /\ failed = 0 /\ closed = 0
    /\ i = 1
    /\ j = 1
    /\ branch_name = ""
    /\ branch_updated = FALSE
    /\ results = <<>>
    /\ calls = <<>>
    /\ steps = 0
    /\ exit_code = <<>>

(* Upstream PRs 1..k with possibly equal head branch names; the fork holds the
   mirrors 1..m left by earlier runs (fork PR s mirrors upstream PR s), which
   may share a head branch name (their base branches then differ), and which
   are up to date or out of date. *)
InitNames ==
    /\ \E k \in 0..MaxPR : \E h \in [1..k -> Heads] :
          /\ upstream = {UpstreamPR(n, h[n], FALSE, {"bug"}) : n \in 1..k}
          /\ listing = NewestFirst(k)
    /\ \E m \in 0..MaxForkPRs : \E fh \in [1..m -> Heads] : \E fresh \in BOOLEAN :
          /\ Cardinality(upstream) + m <= MaxOpen
          /\ fork = [s \in 1..m |-> Mirror(s, s, fh[s], fresh)]
          /\ \A s, t \in 1..m : (s # t /\ fh[s] = fh[t]) => BaseOf(s) # BaseOf(t)
          /\ origin = [b \in {fh[s] : s \in 1..m} \cup Bases |->
                          IF b \in Bases THEN BaseCommit
                          ELSE IF fresh THEN HeadCommit(Min({t \in 1..m : fh[t] = b}))
                          ELSE OldCommit]
    /\ InitLocals

(* One upstream PR and at most one fork PR, every facet of the two varying
   independently; where the PR is to be created the base branch may be missing
   on the fork remote. *)
InitFacets ==
    /\ \E d \in BOOLEAN : \E L \in SUBSET LabelNames :
          upstream = {UpstreamPR(1, "a", d, L)}
    /\ listing = NewestFirst(1)
    /\ \E hasBase \in BOOLEAN :
          LET base == IF hasBase THEN (BaseOf(1) :> BaseCommit) ELSE EmptyMap
          IN  \/ fork = EmptyMap /\ origin = base
              \/ fork = (1 :> Mirror(1, 1, "a-1", FALSE))
                 /\ origin = base @@ ("a-1" :> OldCommit)
              \/ \E t \in {"T", "old"} : \E b \in {build_pr_body(1, "u", "B"), "old"} :
                 \E L \in SUBSET LabelNames : \E d \in BOOLEAN :
                 \E c \in {HeadCommit(1), OldCommit} :
                    /\ hasBase
                    /\ fork = (1 :> ForkPR(1, "a", BaseOf(1), t, b, L, d))
                    /\ origin = base @@ ("a" :> c)
    /\ InitLocals

(* Upstream PRs 1..k that the platform lists in any order; the fork is empty. *)
InitOrder ==
    /\ \E k \in 2..MaxPR : \E o \in Orders(k) :
          /\ upstream = {UpstreamPR(n, "a", FALSE, {"bug"}) : n \in 1..k}
          /\ listing = o
    /\ fork = EmptyMap
    /\ origin = [b \in Bases |-> BaseCommit]
    /\ InitLocals

Init == InitNames \/ InitFacets \/ InitOrder

----------------------------------------------------------------------------
(* External calls *)

(* outcomes an external call may have: it may fail while failures are left *)
Outcomes == IF nfail < MaxFailures THEN BOOLEAN ELSE {TRUE}

(* run_cmd / run_gh: the call is issued and logged; ref is the branch or PR it
   names, arg the set of labels it passes, n the upstream PR being processed
   (0 outside the per-PR loop) *)
run_gh(op, target, ref, arg, n, ok) ==
    /\ calls' = Append(calls, [op |-> op, target |-> target, ref |-> ref, arg |-> arg,
                               n |-> n, ok |-> ok])
    /\ nfail' = IF ok THEN nfail ELSE nfail + 1
    /\ steps' = steps + 1

run_cmd(op, target, ref, n, ok) == run_gh(op, target, ref, {}, n, ok)

(* the JSON list of the upstream PRs, in the order the platform lists them *)
ListedUpstream ==
    [x \in DOMAIN listing |-> CHOOSE p \in upstream : p.number = listing[x]]

(* what `gh pr list --repo FORK_REPO --json ...` shows of an open fork PR *)
ListedForkPR(r) ==
    [number |-> r.number, title |-> r.title, headRefName |-> r.headRefName,
     headRefOid |-> origin[r.headRefName], body |-> r.body, labels |-> r.labels,
     isDraft |-> r.isDraft, id |-> r.id]

(* {pr["headRefName"]: pr for pr in prs}: a later element replaces an earlier one *)
DictOf(prs) ==
    [b \in {prs[k].headRefName : k \in DOMAIN prs} |->
        prs[Max({k \in DOMAIN prs : prs[k].headRefName = b})]]

RECURSIVE DictKeys(_)
(* the keys of that dict in iteration order: the order of first insertion *)
DictKeys(prs) ==
    IF prs = <<>> THEN <<>>
    ELSE LET rest == DictKeys(SubSeq(prs, 1, Len(prs) - 1))
             b == prs[Len(prs)].headRefName
         IN  IF b \in Range(rest) THEN rest ELSE Append(rest, b)

(* platform: closing with --delete-branch closes the PR and deletes its head
   branch, which closes every other open PR of that branch *)
ClosedWithBranch(f, num) ==
    [n \in DOMAIN f |->
        IF f[n].headRefName = f[num].headRefName THEN [f[n] EXCEPT !.state = "CLOSED"]
        ELSE f[n]]

(* platform: the fork has an open PR from head into base *)
HeadBaseTaken(head, base) ==
    \E f \in OpenPRs(fork) : f.headRefName = head /\ f.baseRefName = base

Without(m, b) == [x \in DOMAIN m \ {b} |-> m[x]]

Put(m, b, v) == (b :> v) @@ m

----------------------------------------------------------------------------
(* Locals of sync_prs and create_or_update_pr *)

(* variant: the list is processed in the order it was returned in *)
upstream_prs_as_listed == upstream_prs

upstream_prs_sorted == sorted(upstream_prs)

pr == upstream_prs_sorted[i]

existing == fork_prs[branch_name]

expected_body(p) == build_pr_body(p.number, p.author.login, p.body)

(* variant: the draft flags are not compared *)
metadata_changed_no_draft(p, e) ==
    \/ e.title # p.title
    \/ e.body # expected_body(p)
    \/ get_label_names(e) # get_label_names(p)

(* lines 248-253, for upstream PR p and its mirror e *)
metadata_changed(p, e) ==
    \/ e.title # p.title
    \/ e.body # expected_body(p)
    \/ get_label_names(e) # get_label_names(p)
    \/ e.isDraft # p.isDraft

(* variant: every upstream label is added again *)
to_add_all(upstream_labels, fork_labels) == upstream_labels

(* sync_labels, lines 154-167 *)
to_add(upstream_labels, fork_labels) == upstream_labels \ fork_labels

(* variant: the removal computed in the wrong direction *)
to_remove_swapped(upstream_labels, fork_labels) == upstream_labels \ fork_labels

to_remove(upstream_labels, fork_labels) == fork_labels \ upstream_labels

(* variant: the metadata check skipped once the branch was updated *)
AfterBranch_elif(p, e, bu) ==
    IF bu THEN "updated"
    ELSE IF metadata_changed(p, e) THEN "meta_edit" ELSE "unchanged"

(* where create_or_update_pr goes after the branch check of an existing PR *)
AfterBranch(p, e, bu) ==
    IF metadata_changed(p, e) THEN "meta_edit"
    ELSE IF bu THEN "updated" ELSE "unchanged"

(* variant: the two draft transitions exchanged *)
AfterRemove_swapped(p, e) ==
    IF p.isDraft /\ ~e.isDraft THEN "mark_ready"
    ELSE IF ~p.isDraft /\ e.isDraft THEN "convert_draft"
    ELSE "updated"

(* where update_pr_metadata goes after each of its sub-steps *)
AfterRemove(p, e) ==
    IF p.isDraft /\ ~e.isDraft THEN "convert_draft"
    ELSE IF ~p.isDraft /\ e.isDraft THEN "mark_ready"
    ELSE "updated"

AfterAdd(p, e) ==
    IF to_remove(get_label_names(p), get_label_names(e)) # {} THEN "remove_label"
    ELSE AfterRemove(p, e)

AfterEdit(p, e) ==
    IF to_add(get_label_names(p), get_label_names(e)) # {} THEN "add_label"
    ELSE AfterAdd(p, e)

ResultNames == {"created", "updated", "unchanged", "failed"}

(* variant: a failed PR is not tallied *)
Return_untallied_failure(result) ==
    /\ results' = Append(results,
          [number |-> pr.number,
           branch |-> IF pc = "loop" THEN get_branch_name(pr, upstream_prs) ELSE branch_name,
           result |-> result])
    /\ created' = IF result = "created" THEN created + 1 ELSE created
    /\ updated' = IF result = "updated" THEN updated + 1 ELSE updated
    /\ unchanged' = IF result = "unchanged" THEN unchanged + 1 ELSE unchanged
    /\ failed' = failed
    /\ i' = i + 1
    /\ pc' = "loop"

(* create_or_update_pr returns result and sync_prs tallies it (lines 365-377);
   results records the PR, the branch name it was given and the result *)
Return(result) ==
    /\ results' = Append(results,
          [number |-> pr.number,
           branch |-> IF pc = "loop" THEN get_branch_name(pr, upstream_prs) ELSE branch_name,
           result |-> result])
    /\ created' = IF result = "created" THEN created + 1 ELSE created
    /\ updated' = IF result = "updated" THEN updated + 1 ELSE updated
    /\ unchanged' = IF result = "unchanged" THEN unchanged + 1 ELSE unchanged
    /\ failed' = IF result \notin {"created", "updated", "unchanged"} THEN failed + 1 ELSE failed
    /\ i' = i + 1
    /\ pc' = "loop"

(* the process moves on: to a position inside the PR, or out of it with a result *)
Goto(next) ==
    IF next \in ResultNames THEN Return(next)
    ELSE /\ pc' = next
         /\ UNCHANGED <<results, created, updated, unchanged, failed, i>>

----------------------------------------------------------------------------
(* Actions: main / sync_prs *)

env == <<upstream, listing, fork, origin, local>>
tally == <<results, created, updated, unchanged, failed, i>>

(* get_upstream_prs, line 342: a failure is not caught and ends the process *)
GetUpstreamPRs ==
    /\ pc = "start"
    /\ \E ok \in Outcomes :
          /\ run_cmd("pr list", UPSTREAM_REPO, "open", 0, ok)
          /\ IF ok
             THEN upstream_prs' = ListedUpstream /\ pc' = "get_fork"
                  /\ exit_code' = exit_code
             ELSE upstream_prs' = upstream_prs /\ pc' = "aborted" /\ exit_code' = <<1>>
    /\ UNCHANGED <<env, interrupted, run, fork_prs, fork_list, upstream_branches, tally, closed, j,
                   branch_name, branch_updated>>

(* variant: a failed fetch of the fork list is taken for an empty list *)
GetForkPRs_swallowed ==
    /\ pc = "get_fork"
    /\ \E ok \in Outcomes :
          /\ run_cmd("pr list", FORK_REPO, "open", 0, ok)
          /\ IF ok
             THEN LET prs == SeqDescending({ListedForkPR(r) : r \in OpenPRs(fork)})
                  IN  fork_list' = prs /\ fork_prs' = DictOf(prs)
             ELSE fork_list' = <<>> /\ fork_prs' = EmptyMap
    /\ pc' = "loop"
    /\ UNCHANGED <<env, interrupted, run, upstream_prs, upstream_branches, tally, closed, j,
                   branch_name, branch_updated, exit_code>>

(* get_fork_prs, line 343 *)
GetForkPRs ==
    /\ pc = "get_fork"
    /\ \E ok \in Outcomes :
          /\ run_cmd("pr list", FORK_REPO, "open", 0, ok)
          /\ IF ok
             THEN LET prs == SeqDescending({ListedForkPR(r) : r \in OpenPRs(fork)})
                  IN  fork_list' = prs /\ fork_prs' = DictOf(prs) /\ pc' = "loop"
                      /\ exit_code' = exit_code
             ELSE UNCHANGED <<fork_list, fork_prs>> /\ pc' = "aborted" /\ exit_code' = <<1>>
    /\ UNCHANGED <<env, interrupted, run, upstream_prs, upstream_branches, tally, closed, j,
                   branch_name, branch_updated>>

(* variant: a branch name is not recorded as expected when its branch is to be
   updated *)
BeginPR_unrecorded ==
    /\ pc = "loop"
    /\ i <= Len(upstream_prs_sorted)
    /\ LET bn == get_branch_name(pr, upstream_prs)
       IN  /\ branch_name' = bn
           /\ branch_updated' = FALSE
           /\ IF bn \in DOMAIN fork_prs
              THEN IF fork_prs[bn].headRefOid # pr.headRefOid
                   THEN upstream_branches' = upstream_branches /\ Goto("upd_fetch")
                   ELSE /\ upstream_branches' = upstream_branches \cup {bn}
                        /\ Goto(AfterBranch(pr, fork_prs[bn], FALSE))
              ELSE upstream_branches' = upstream_branches \cup {bn} /\ Goto("base_check")
    /\ steps' = steps + 1
    /\ UNCHANGED <<env, interrupted, run, nfail, upstream_prs, fork_prs, fork_list, closed, j,
                   calls, exit_code>>

(* lines 361-365 and 211-237, 263: the loop takes the next PR, names its branch
   and looks for its mirror *)
BeginPR ==
    /\ pc = "loop"
    /\ i <= Len(upstream_prs_sorted)
    /\ LET bn == get_branch_name(pr, upstream_prs)
       IN  /\ branch_name' = bn
           /\ upstream_branches' = upstream_branches \cup {bn}
           /\ branch_updated' = FALSE
           /\ IF bn \in DOMAIN fork_prs
              THEN IF fork_prs[bn].headRefOid # pr.headRefOid
                   THEN Goto("upd_fetch")
                   ELSE Goto(AfterBranch(pr, fork_prs[bn], FALSE))
              ELSE Goto("base_check")
    /\ steps' = steps + 1
    /\ UNCHANGED <<env, interrupted, run, nfail, upstream_prs, fork_prs, fork_list, closed, j, calls,
                   exit_code>>

(* line 240: git fetch upstream pull/N/head:branch --force *)
UpdateFetch ==
    /\ pc = "upd_fetch"
    /\ \E ok \in Outcomes :
          /\ run_cmd("fetch", "upstream", branch_name, pr.number, ok)
          /\ IF ok THEN local' = Put(local, branch_name, pr.headRefOid) /\ Goto("upd_push")
             ELSE local' = local /\ Goto("failed")
    /\ UNCHANGED <<upstream, listing, interrupted, fork, origin, run, upstream_prs,
                   fork_prs, fork_list, upstream_branches, closed, j, branch_name,
                   branch_updated, exit_code>>

(* lines 241-259: git push origin branch --force, then the metadata check *)
UpdatePush ==
    /\ pc = "upd_push"
    /\ \E ok \in Outcomes :
          /\ run_cmd("push", "origin", branch_name, pr.number, ok)
          /\ IF ok
             THEN /\ origin' = Put(origin, branch_name, local[branch_name])
                  /\ branch_updated' = TRUE
                  /\ Goto(AfterBranch(pr, existing, TRUE))
             ELSE UNCHANGED <<origin, branch_updated>> /\ Goto("failed")
    /\ UNCHANGED <<upstream, listing, interrupted, fork, local, run, upstream_prs,
                   fork_prs, fork_list, upstream_branches, closed, j, branch_name,
                   exit_code>>

----------------------------------------------------------------------------
(* Actions: update_pr_metadata, called at line 257; its result is not used *)

meta_frame == <<upstream, listing, interrupted, origin, local, run, upstream_prs, fork_prs, fork_list,
                upstream_branches, closed, j, branch_name, branch_updated, exit_code>>

(* lines 180-185: gh pr edit --title --body; a failure leaves update_pr_metadata
   through its except clause *)
EditTitleBody ==
    /\ pc = "meta_edit"
    /\ \E ok \in Outcomes :
          /\ run_cmd("pr edit", FORK_REPO, ToString(existing.number), pr.number, ok)
          /\ IF ok
             THEN /\ fork' = [fork EXCEPT ![existing.number].title = pr.title,
                                          ![existing.number].body = expected_body(pr)]
                  /\ Goto(AfterEdit(pr, existing))
             ELSE fork' = fork /\ Goto("updated")
    /\ UNCHANGED meta_frame

(* sync_labels, lines 158-164: gh pr edit --add-label, check=False *)
AddLabels ==
    /\ pc = "add_label"
    /\ \E ok \in Outcomes :
          /\ run_gh("add-label", FORK_REPO, ToString(existing.number),
                    to_add(get_label_names(pr), get_label_names(existing)), pr.number, ok)
          /\ fork' = IF ok
                     THEN [fork EXCEPT ![existing.number].labels =
                             @ \cup LabelsOf(to_add(get_label_names(pr), get_label_names(existing)))]
                     ELSE fork
    /\ Goto(AfterAdd(pr, existing))
    /\ UNCHANGED meta_frame

(* sync_labels, lines 167-173: gh pr edit --remove-label, check=False *)
RemoveLabels ==
    /\ pc = "remove_label"
    /\ \E ok \in Outcomes :
          /\ run_gh("remove-label", FORK_REPO, ToString(existing.number),
                    to_remove(get_label_names(pr), get_label_names(existing)), pr.number, ok)
          /\ fork' = IF ok
                     THEN [fork EXCEPT ![existing.number].labels =
                             @ \ LabelsOf(to_remove(get_label_names(pr), get_label_names(existing)))]
                     ELSE fork
    /\ Goto(AfterRemove(pr, existing))
    /\ UNCHANGED meta_frame

(* lines 191-194 and convert_pr_to_draft: the GraphQL mutation on the node id *)
ConvertToDraft ==
    /\ pc = "convert_draft"
    /\ \E ok \in Outcomes :
          /\ run_cmd("convert-draft", FORK_REPO, existing.id, pr.number, ok)
          /\ fork' = IF ok
                     THEN [n \in DOMAIN fork |->
                             IF fork[n].id = existing.id THEN [fork[n] EXCEPT !.isDraft = TRUE]
                             ELSE fork[n]]
                     ELSE fork
    /\ Goto("updated")
    /\ UNCHANGED meta_frame

(* lines 195-198 and mark_pr_ready: gh pr ready *)
MarkReady ==
    /\ pc = "mark_ready"
    /\ \E ok \in Outcomes :
          /\ run_cmd("pr ready", FORK_REPO, ToString(existing.number), pr.number, ok)
          /\ fork' = IF ok THEN [fork EXCEPT ![existing.number].isDraft = FALSE] ELSE fork
    /\ Goto("updated")
    /\ UNCHANGED meta_frame

----------------------------------------------------------------------------
(* Actions: the create path of create_or_update_pr, lines 263-302 *)

new_frame == <<upstream, listing, interrupted, run, upstream_prs, fork_prs, fork_list, upstream_branches,
               closed, j, branch_name, branch_updated, exit_code>>

(* branch_exists_on_origin, lines 89-93: git ls-remote, check=False; no output
   (or a failed command) means the branch is taken to be missing *)
BaseCheck ==
    /\ pc = "base_check"
    /\ \E ok \in Outcomes :
          /\ run_cmd("ls-remote", "origin", pr.baseRefName, pr.number, ok)
          /\ IF ok /\ pr.baseRefName \in DOMAIN origin
             THEN Goto("new_fetch")
             ELSE Goto("base_fetch")
    /\ UNCHANGED <<fork, origin, local>>
    /\ UNCHANGED new_frame

(* line 104: git fetch upstream base:base *)
BaseFetch ==
    /\ pc = "base_fetch"
    /\ \E ok \in Outcomes :
          /\ run_cmd("fetch", "upstream", pr.baseRefName, pr.number, ok)
          /\ IF ok THEN local' = Put(local, pr.baseRefName, BaseCommit) /\ Goto("base_push")
             ELSE local' = local /\ Goto("failed")
    /\ UNCHANGED <<fork, origin>>
    /\ UNCHANGED new_frame

(* line 105: git push origin base *)
BasePush ==
    /\ pc = "base_push"
    /\ \E ok \in Outcomes :
          /\ run_cmd("push", "origin", pr.baseRefName, pr.number, ok)
          /\ IF ok
             THEN origin' = Put(origin, pr.baseRefName, local[pr.baseRefName])
                  /\ Goto("new_fetch")
             ELSE origin' = origin /\ Goto("failed")
    /\ UNCHANGED <<fork, local>>
    /\ UNCHANGED new_frame

(* line 272: git fetch upstream pull/N/head:branch *)
NewFetch ==
    /\ pc = "new_fetch"
    /\ \E ok \in Outcomes :
          /\ run_cmd("fetch", "upstream", branch_name, pr.number, ok)
          /\ IF ok THEN local' = Put(local, branch_name, pr.headRefOid) /\ Goto("new_push")
             ELSE local' = local /\ Goto("failed")
    /\ UNCHANGED <<fork, origin>>
    /\ UNCHANGED new_frame

(* variant: the outcome of the push is not checked *)
NewPush_unchecked ==
    /\ pc = "new_push"
    /\ \E ok \in Outcomes :
          /\ run_cmd("push", "origin", branch_name, pr.number, ok)
          /\ origin' = IF ok THEN Put(origin, branch_name, local[branch_name]) ELSE origin
          /\ Goto("create")
    /\ UNCHANGED <<fork, local>>
    /\ UNCHANGED new_frame

(* line 273: git push origin branch *)
NewPush ==
    /\ pc = "new_push"
    /\ \E ok \in Outcomes :
          /\ run_cmd("push", "origin", branch_name, pr.number, ok)
          /\ IF ok
             THEN origin' = Put(origin, branch_name, local[branch_name])
                  /\ Goto("create")
             ELSE origin' = origin /\ Goto("failed")
    /\ UNCHANGED <<fork, local>>
    /\ UNCHANGED new_frame

(* lines 279-302: gh pr create --head --base --title --body [--label] [--draft];
   the platform refuses a second open PR for the same head and base *)
CreatePR ==
    /\ pc = "create"
    /\ \E ok \in IF HeadBaseTaken(branch_name, pr.baseRefName) THEN {FALSE} ELSE Outcomes :
          /\ run_gh("pr create", FORK_REPO, branch_name, get_label_names(pr), pr.number, ok)
          /\ IF ok
             THEN LET num == Max(DOMAIN fork \cup {0}) + 1
                  IN  fork' = Put(fork, num,
                                  ForkPR(num, branch_name, pr.baseRefName, pr.title,
                                         expected_body(pr), get_label_names(pr), pr.isDraft))
                      /\ Goto("created")
             ELSE fork' = fork /\ Goto("failed")
    /\ UNCHANGED <<origin, local>>
    /\ UNCHANGED new_frame

----------------------------------------------------------------------------
(* Actions: close_stale_prs (line 380), the summary and the exit of main *)

fork_keys == DictKeys(fork_list)

sweep_frame == <<upstream, listing, interrupted, local, run, upstream_prs, fork_prs, fork_list,
                 upstream_branches, tally, branch_name, branch_updated, exit_code>>

(* variant: the loop is left one PR early *)
EndLoop_early ==
    /\ pc = "loop"
    /\ i >= Len(upstream_prs_sorted)
    /\ pc' = "sweep"
    /\ j' = 1
    /\ closed' = 0
    /\ steps' = steps + 1
    /\ UNCHANGED <<env, interrupted, run, nfail, upstream_prs, fork_prs, fork_list, upstream_branches,
                   tally, branch_name, branch_updated, calls, exit_code>>

(* the for loop of sync_prs is exhausted: close_stale_prs starts *)
EndLoop ==
    /\ pc = "loop"
    /\ i > Len(upstream_prs_sorted)
    /\ pc' = "sweep"
    /\ j' = 1
    /\ closed' = 0
    /\ steps' = steps + 1
    /\ UNCHANGED <<env, interrupted, run, nfail, upstream_prs, fork_prs, fork_list, upstream_branches,
                   tally, branch_name, branch_updated, calls, exit_code>>

(* line 318: the fork PR's branch is expected, nothing to do *)
KeepPR ==
    /\ pc = "sweep"
    /\ j <= Len(fork_keys)
    /\ fork_keys[j] \in upstream_branches
    /\ j' = j + 1
    /\ steps' = steps + 1
    /\ UNCHANGED <<env, interrupted, pc, run, nfail, upstream_prs, fork_prs, fork_list,
                   upstream_branches, tally, closed, branch_name, branch_updated, calls,
                   exit_code>>

(* lines 318-332: gh pr close --delete-branch --comment, check=False *)
ClosePR ==
    /\ pc = "sweep"
    /\ j <= Len(fork_keys)
    /\ fork_keys[j] \notin upstream_branches
    /\ LET stale == fork_prs[fork_keys[j]]
       IN  \E ok \in Outcomes :
              /\ run_cmd("pr close", FORK_REPO, ToString(stale.number), 0, ok)
              /\ IF ok
                 THEN /\ fork' = ClosedWithBranch(fork, stale.number)
                      /\ origin' = Without(origin, stale.headRefName)
                 ELSE UNCHANGED <<fork, origin>>
    /\ closed' = closed + 1
    /\ j' = j + 1
    /\ UNCHANGED <<pc>>
    /\ UNCHANGED sweep_frame

(* lines 382-389 and 397-403: the summary, return failed == 0, sys.exit *)
Report ==
    /\ pc = "sweep"
    /\ j > Len(fork_keys)
    /\ pc' = "done"
    /\ exit_code' = <<IF failed = 0 THEN 0 ELSE 1>>
    /\ steps' = steps + 1
    /\ UNCHANGED <<env, interrupted, run, nfail, upstream_prs, fork_prs, fork_list, upstream_branches,
                   tally, closed, j, branch_name, branch_updated, calls>>

(* the process is terminated from outside between two of its external calls:
   what it held in memory is gone, the repositories and the clone stay as they
   are; only a run that another run follows is of interest *)
Kill ==
    /\ pc \notin {"start", "done", "aborted", "killed"}
    /\ run < MaxRuns
    /\ nfail < MaxFailures
    /\ nfail' = nfail + 1
    /\ pc' = "killed"
    /\ upstream_prs' = <<>>
    /\ fork_prs' = EmptyMap
    /\ fork_list' = <<>>
    /\ upstream_branches' = {}
    /\ created' = 0 /\ updated' = 0 /\ unchanged' = 0 /\ failed' = 0 /\ closed' = 0
    /\ i' = 1
    /\ j' = 1
    /\ branch_name' = ""
    /\ branch_updated' = FALSE
    /\ results' = <<>>
    /\ calls' = <<>>
    /\ steps' = 0
    /\ UNCHANGED <<env, interrupted, run, exit_code>>

(* the batch job is started again; the working clone is kept *)
Rerun ==
    /\ pc \in {"done", "aborted", "killed"}
    /\ run < MaxRuns
    /\ run' = run + 1
    /\ interrupted' = (pc = "killed")
    /\ pc' = "start"
    /\ upstream_prs' = <<>>
    /\ fork_prs' = EmptyMap
    /\ fork_list' = <<>>
    /\ upstream_branches' = {}
    /\ created' = 0 /\ updated' = 0 /\ unchanged' = 0 /\ failed' = 0 /\ closed' = 0
    /\ i' = 1
    /\ j' = 1
    /\ branch_name' = ""
    /\ branch_updated' = FALSE
    /\ results' = <<>>
    /\ calls' = <<>>
    /\ steps' = 0
    /\ exit_code' = <<>>
    /\ UNCHANGED <<env, nfail>>

Next ==
    \/ GetUpstreamPRs
    \/ GetForkPRs
    \/ BeginPR
    \/ UpdateFetch
    \/ UpdatePush
    \/ EditTitleBody
    \/ AddLabels
    \/ RemoveLabels
    \/ ConvertToDraft
    \/ MarkReady
    \/ BaseCheck
    \/ BaseFetch
    \/ BasePush
    \/ NewFetch
    \/ NewPush
    \/ CreatePR
    \/ EndLoop
    \/ KeepPR
    \/ ClosePR
    \/ Report
    \/ Kill
    \/ Rerun

Spec == Init /\ [][Next]_vars

----------------------------------------------------------------------------
(* Vocabulary of the properties *)

(* the fetched upstream PR with number n *)
UpstreamOf(n) == upstream_prs[CHOOSE k \in DOMAIN upstream_prs : upstream_prs[k].number = n]

(* the calls of kind op issued in this run while upstream PR n was processed *)
CallsFor(op, n) == {k \in DOMAIN calls : calls[k].op = op /\ calls[k].n = n}

(* a close call was issued in this run for fork PR num *)
CloseIssued(num) ==
    \E k \in DOMAIN calls : calls[k].op = "pr close" /\ calls[k].ref = ToString(num)

AllCallsOk == \A k \in DOMAIN calls : calls[k].ok

(* the fetched head commit of mirror e differs from the one of upstream PR p *)
CommitDiffers(p, e) == e.headRefOid # p.headRefOid

(* title, draft flag, label set or templated body of mirror e differ from p's *)
MetadataDiffers(p, e) ==
    \/ e.title # p.title
    \/ e.isDraft # p.isDraft
    \/ {l.name : l \in e.labels} # {l.name : l \in p.labels}
    \/ e.body # build_pr_body(p.number, p.author.login, p.body)

(* an open fork PR on branch bn carries exactly the state of upstream PR p *)
Mirrored(p, bn) ==
    \E f \in OpenPRs(fork) :
        /\ f.headRefName = bn
        /\ bn \in DOMAIN origin /\ origin[bn] = p.headRefOid
        /\ f.title = p.title
        /\ f.body = expected_body(p)
        /\ get_label_names(f) = get_label_names(p)
        /\ f.isDraft = p.isDraft

----------------------------------------------------------------------------
(* C1: within one run, the branch names given to different upstream PRs are
   pairwise distinct. *)
C1_BranchNamesUnique ==
    \A a, b \in DOMAIN results : a # b => results[a].branch # results[b].branch

(* C2: a second run that follows a run without any failed call, with upstream
   unchanged, issues no call but the two list calls and counts every upstream
   PR as unchanged. *)
C2_Idempotent ==
    (run >= 2 /\ pc = "done" /\ nfail = 0) =>
        /\ \A k \in DOMAIN calls : calls[k].op = "pr list"
        /\ created = 0 /\ updated = 0 /\ closed = 0 /\ failed = 0
        /\ unchanged = Len(upstream_prs)

(* C3: after a run in which every call succeeded, every upstream PR has an open
   fork PR on its branch name with its head commit, title, templated body,
   labels and draft flag, and every fetched fork PR on a branch name given to
   no upstream PR is closed. *)
C3_Converged ==
    (pc = "done" /\ AllCallsOk) =>
        /\ \A p \in Range(upstream_prs) : Mirrored(p, get_branch_name(p, upstream_prs))
        /\ \A k \in DOMAIN fork_list :
              fork_list[k].headRefName \notin upstream_branches
                  => fork[fork_list[k].number].state = "CLOSED"

(* C4: at the end of a run, a close call has been issued for a fetched fork PR
   if and only if its head branch name is not among the branch names computed
   from the upstream list of the run. *)
C4_StaleDetection ==
    pc = "done" =>
        \A k \in DOMAIN fork_list :
            CloseIssued(fork_list[k].number)
                <=> fork_list[k].headRefName \notin upstream_branches

(* C5: an upstream PR is given '{headBranch}-{prNumber}' when another fetched
   PR has the same head branch name, and its head branch name otherwise. *)
C5_BranchNamingRule ==
    \A k \in DOMAIN results :
        LET p == UpstreamOf(results[k].number)
            shared == \E q \in Range(upstream_prs) :
                          q.number # p.number /\ q.headRefName = p.headRefName
        IN  results[k].branch =
                IF shared THEN p.headRefName \o "-" \o ToString(p.number)
                ELSE p.headRefName

C5_Witness ==
    \E k, l \in DOMAIN results :
        /\ results[k].branch # UpstreamOf(results[k].number).headRefName
        /\ results[l].branch = UpstreamOf(results[l].number).headRefName

(* C6: a failed close call of the stale sweep is counted as failed and not as
   closed, and makes the run unsuccessful (exit code 1). *)
C6_SweepFailuresCounted ==
    pc = "done" =>
        LET bad == {k \in DOMAIN calls : calls[k].op = "pr close" /\ ~calls[k].ok}
            good == {k \in DOMAIN calls : calls[k].op = "pr close" /\ calls[k].ok}
        IN  /\ closed = Cardinality(good)
            /\ bad # {} => (failed >= Cardinality(bad) /\ exit_code = <<1>>)

(* C7: when the title/body edit of a metadata update fails, the upstream PR is
   counted as failed, not as updated, and the process exits with status 1. *)
C7_MetadataFailureTallied ==
    pc = "done" =>
        \A k \in DOMAIN calls :
            (calls[k].op = "pr edit" /\ ~calls[k].ok) =>
                /\ \E r \in DOMAIN results :
                      results[r].number = calls[k].n /\ results[r].result = "failed"
                /\ exit_code = <<1>>

(* the processed upstream PRs whose mirror exists with another head commit and
   other metadata *)
BothDiffer ==
    {r \in DOMAIN results :
        /\ results[r].branch \in DOMAIN fork_prs
        /\ CommitDiffers(UpstreamOf(results[r].number), fork_prs[results[r].branch])
        /\ MetadataDiffers(UpstreamOf(results[r].number), fork_prs[results[r].branch])}

Issued(op, n) == \E k \in DOMAIN calls : calls[k].op = op /\ calls[k].n = n

Succeeded(op, n) ==
    \E k \in DOMAIN calls : calls[k].op = op /\ calls[k].n = n /\ calls[k].ok

(* C8 as claimed: when head commit and metadata both differ, the branch sync
   (fetch and push) and the metadata update are both executed, whatever the
   outcome of the other. *)
C8_BothExecuted ==
    \A r \in BothDiffer :
        LET n == results[r].number
        IN  Issued("fetch", n) /\ Issued("push", n) /\ Issued("pr edit", n)

(* C8 amended: when head commit and metadata both differ, the branch sync comes
   first and is attempted whatever happens to the metadata update; the metadata
   update is executed exactly when the fetch and the push succeeded; when the
   fetch or the push fails the PR is counted as failed and no metadata call is
   issued for it. *)
C8_BranchThenMetadata ==
    \A r \in BothDiffer :
        LET n == results[r].number
            synced == Succeeded("fetch", n) /\ Succeeded("push", n)
        IN  /\ Issued("fetch", n)
            /\ Succeeded("fetch", n) => Issued("push", n)
            /\ synced => Issued("pr edit", n)
            /\ ~synced => (~Issued("pr edit", n) /\ results[r].result = "failed")

C8_Witness ==
    \E r \in BothDiffer :
        /\ Succeeded("push", results[r].number)
        /\ Issued("pr edit", results[r].number)
        /\ ~Succeeded("pr edit", results[r].number)

(* the processed upstream PRs for which a metadata update was started *)
MetadataStarted == {r \in DOMAIN results : Issued("pr edit", results[r].number)}

(* the sub-steps of the metadata update of results[r] that are due are issued,
   and no other *)
DueSubStepsIssued(r) ==
    LET n == results[r].number
        p == UpstreamOf(n)
        e == fork_prs[results[r].branch]
    IN  /\ Issued("add-label", n) <=> get_label_names(p) \ get_label_names(e) # {}
        /\ Issued("remove-label", n) <=> get_label_names(e) \ get_label_names(p) # {}
        /\ Issued("convert-draft", n) <=> (p.isDraft /\ ~e.isDraft)
        /\ Issued("pr ready", n) <=> (~p.isDraft /\ e.isDraft)

NoSubStepIssued(r) ==
    \A op \in {"add-label", "remove-label", "convert-draft", "pr ready"} :
        ~Issued(op, results[r].number)

(* C9 as claimed: whichever sub-step of a metadata update fails, the title/body
   edit included, the other sub-steps that are due are still issued. *)
C9_SubStepsIndependent ==
    \A r \in MetadataStarted : DueSubStepsIssued(r)

(* C9 amended: the failure of the label addition, of the label removal or of
   the draft transition does not prevent the remaining sub-steps that are due;
   the failure of the title/body edit ends the metadata update: no label call
   and no draft call is issued for that PR. *)
C9_SubStepsAfterEdit ==
    \A r \in MetadataStarted :
        IF Succeeded("pr edit", results[r].number)
        THEN DueSubStepsIssued(r)
        ELSE NoSubStepIssued(r)

C9_Witness ==
    \E r \in MetadataStarted :
        LET n == results[r].number
        IN  /\ Issued("add-label", n) /\ ~Succeeded("add-label", n)
            /\ Issued("remove-label", n)
            /\ Issued("pr ready", n)

(* every fetched upstream PR has been processed once, in exactly one tally, and
   no call has been issued twice *)
Accounted ==
    /\ created + updated + unchanged + failed = Len(upstream_prs)
    /\ Len(results) = Len(upstream_prs)
    /\ \A k \in DOMAIN upstream_prs : \E r \in DOMAIN results :
          results[r].number = upstream_prs[k].number
    /\ created = Cardinality({r \in DOMAIN results : results[r].result = "created"})
    /\ updated = Cardinality({r \in DOMAIN results : results[r].result = "updated"})
    /\ unchanged = Cardinality({r \in DOMAIN results : results[r].result = "unchanged"})
    /\ failed = Cardinality({r \in DOMAIN results : results[r].result = "failed"})
    /\ \A b \in DOMAIN calls : \A a \in 1..(b - 1) :
          ~(/\ calls[a].op = calls[b].op
            /\ calls[a].n = calls[b].n
            /\ calls[a].ref = calls[b].ref
            /\ calls[a].target = calls[b].target)

(* C10: whatever calls fail after the two fetches, the run does not abort (only
   a failed fetch of a PR list aborts it) and the number of its steps is
   bounded by the sizes of the two lists; at its summary and exit every fetched
   upstream PR has been processed exactly once and tallied in exactly one of
   created, updated, unchanged and failed, and no call has been retried. *)
C10_EveryPRAccounted ==
    /\ pc \in {"sweep", "done"} => Accounted
    /\ pc = "aborted" =>
          /\ results = <<>>
          /\ calls[Len(calls)].op = "pr list" /\ ~calls[Len(calls)].ok
    /\ steps <= 4 + 7 * Len(upstream_prs) + Cardinality(DOMAIN fork_prs)

C10_Witness ==
    /\ pc = "done"
    /\ created > 0 /\ unchanged > 0 /\ failed > 0

----------------------------------------------------------------------------
(* the upstream PR with number n has been processed in this run *)
Processed(n) == \E r \in DOMAIN results : results[r].number = n

(* C11: in whatever order the upstream list was returned, the PRs are processed
   and their calls issued in ascending order of their numbers, and every PR
   with a smaller number has been processed when a call for a PR is issued. *)
C11_AscendingOrder ==
    /\ \A a, b \in DOMAIN results : a < b => results[a].number < results[b].number
    /\ \A b \in DOMAIN calls :
          calls[b].n > 0 =>
              /\ \A a \in 1..(b - 1) : calls[a].n <= calls[b].n
              /\ \A x \in DOMAIN upstream_prs :
                    upstream_prs[x].number < calls[b].n => Processed(upstream_prs[x].number)

C11_Witness ==
    /\ pc = "done"
    /\ Len(upstream_prs) = 3
    /\ upstream_prs[1].number = 2 /\ upstream_prs[2].number = 3
    /\ \A n \in 1..3 : Issued("pr create", n)

(* C12: when a close call of the sweep is issued every upstream PR of the run
   has been processed, and every call after the first close call is a close
   call. *)
C12_SweepAfterLoop ==
    \A k \in DOMAIN calls :
        calls[k].op = "pr close" =>
            /\ Len(results) = Len(upstream_prs)
            /\ \A x \in DOMAIN upstream_prs : Processed(upstream_prs[x].number)
            /\ \A l \in DOMAIN calls : l > k => calls[l].op = "pr close"

C12_Witness ==
    /\ pc = "done"
    /\ \E k \in DOMAIN calls : calls[k].op = "pr close"
    /\ \E k \in DOMAIN calls : calls[k].op = "pr create"
    /\ \E k \in DOMAIN calls : calls[k].op = "pr edit"

(* C13: when the fetch of the upstream list or of the fork list fails, the run
   is aborted with exit status 1, no PR has been processed and no call but the
   list fetches has been issued in the run. *)
C13_FetchFailureFatal ==
    (\E k \in DOMAIN calls : calls[k].op = "pr list" /\ ~calls[k].ok) =>
        /\ pc = "aborted"
        /\ exit_code = <<1>>
        /\ results = <<>>
        /\ \A k \in DOMAIN calls : calls[k].op = "pr list"

C13_Witness ==
    /\ pc = "aborted"
    /\ Len(calls) = 2
    /\ upstream # {}
    /\ DOMAIN fork # {}

(* the fetched mirror of the upstream PR with number n *)
FetchedMirror(n) == fork_prs[get_branch_name(UpstreamOf(n), upstream_prs)]

(* C14: with U the upstream and F the fetched fork label set of a PR, the label
   addition names exactly U \ F and the label removal exactly F \ U; neither is
   issued for an empty set; once sync_labels is reached each is issued when its
   set is not empty; and when the issued ones succeeded the labels of the fork
   PR are U. *)
C14_LabelDelta ==
    /\ \A k \in DOMAIN calls :
          LET U == get_label_names(UpstreamOf(calls[k].n))
              F == get_label_names(FetchedMirror(calls[k].n))
          IN  /\ calls[k].op = "add-label" => (calls[k].arg = U \ F /\ calls[k].arg # {})
              /\ calls[k].op = "remove-label" => (calls[k].arg = F \ U /\ calls[k].arg # {})
    /\ \A r \in MetadataStarted :
          LET n == results[r].number
              U == get_label_names(UpstreamOf(n))
              F == get_label_names(FetchedMirror(n))
          IN  Succeeded("pr edit", n) =>
                  /\ Issued("add-label", n) <=> U \ F # {}
                  /\ Issued("remove-label", n) <=> F \ U # {}
                  /\ (/\ Issued("add-label", n) => Succeeded("add-label", n)
                      /\ Issued("remove-label", n) => Succeeded("remove-label", n))
                        => get_label_names(fork[FetchedMirror(n).number]) = U

C14_Witness ==
    \E r \in MetadataStarted :
        LET n == results[r].number
        IN  /\ Succeeded("add-label", n)
            /\ Succeeded("remove-label", n)
            /\ get_label_names(FetchedMirror(n)) = {"ui"}
            /\ get_label_names(fork[FetchedMirror(n).number]) = {"bug"}

(* C15: a complete run in which every call succeeds, started after a run that
   was terminated from outside, leaves every upstream PR mirrored by an open
   fork PR on its branch name, without a second fork PR on a branch name that
   had one, and every fetched fork PR on a branch name given to no upstream PR
   closed. *)
C15_Resumable ==
    (pc = "done" /\ interrupted /\ AllCallsOk) =>
        /\ \A p \in Range(upstream_prs) :
              LET bn == get_branch_name(p, upstream_prs)
              IN  /\ Mirrored(p, bn)
                  /\ Cardinality({f \in OpenPRs(fork) : f.headRefName = bn})
                        <= Max({1, Cardinality({k \in DOMAIN fork_list :
                                                  fork_list[k].headRefName = bn})})
        /\ \A k \in DOMAIN fork_list :
              fork_list[k].headRefName \notin upstream_branches
                  => fork[fork_list[k].number].state = "CLOSED"

----------------------------------------------------------------------------
(* the processed upstream PRs that had a mirror PR on their branch name *)
Existing == {r \in DOMAIN results : results[r].branch \in DOMAIN fork_prs}

MetadataOps == {"pr edit", "add-label", "remove-label", "convert-draft", "pr ready"}

MetadataIssued(n) == \E k \in DOMAIN calls : calls[k].n = n /\ calls[k].op \in MetadataOps

NoCallFor(n) == \A k \in DOMAIN calls : calls[k].n # n

(* C16 as claimed: for an existing mirror PR the branch sync calls are issued
   if and only if the head commits differ, the metadata calls if and only if
   the metadata differs; only the commit differing gives no metadata call and
   'updated'; nothing differing gives no call and 'unchanged'. *)
C16_DecisionTable ==
    \A r \in Existing :
        LET n == results[r].number
            p == UpstreamOf(n)
            e == fork_prs[results[r].branch]
        IN  /\ (Issued("fetch", n) /\ Issued("push", n)) <=> CommitDiffers(p, e)
            /\ MetadataIssued(n) <=> MetadataDiffers(p, e)
            /\ (CommitDiffers(p, e) /\ ~MetadataDiffers(p, e))
                  => (~MetadataIssued(n) /\ results[r].result = "updated")
            /\ (~CommitDiffers(p, e) /\ ~MetadataDiffers(p, e))
                  => (NoCallFor(n) /\ results[r].result = "unchanged")

(* C16 amended: for an existing mirror PR the fetch is issued if and only if
   the head commits differ and the push if and only if that fetch succeeded; a
   failed fetch or push gives 'failed' and no metadata call; otherwise the
   metadata calls are issued if and only if the metadata differs; only the
   commit differing then gives no metadata call and 'updated'; nothing
   differing gives no call and 'unchanged'. *)
C16_DecisionTableSynced ==
    \A r \in Existing :
        LET n == results[r].number
            p == UpstreamOf(n)
            e == fork_prs[results[r].branch]
            commit == CommitDiffers(p, e)
            metadata == MetadataDiffers(p, e)
            fetched == Succeeded("fetch", n)
            synced == ~commit \/ (fetched /\ Succeeded("push", n))
        IN  /\ Issued("fetch", n) <=> commit
            /\ Issued("push", n) <=> (commit /\ fetched)
            /\ ~synced => (~MetadataIssued(n) /\ results[r].result = "failed")
            /\ synced => (MetadataIssued(n) <=> metadata)
            /\ (synced /\ commit /\ ~metadata) => results[r].result = "updated"
            /\ (~commit /\ ~metadata) => (NoCallFor(n) /\ results[r].result = "unchanged")

C16_Witness ==
    \E r \in Existing :
        LET n == results[r].number
            p == UpstreamOf(n)
            e == fork_prs[results[r].branch]
        IN  /\ ~CommitDiffers(p, e)
            /\ e.title = p.title /\ e.body = expected_body(p)
            /\ get_label_names(e) = get_label_names(p)
            /\ e.isDraft # p.isDraft
            /\ Issued("pr edit", n)
            /\ results[r].result = "updated"

(* the processed upstream PRs that had no mirror PR on their branch name *)
New == DOMAIN results \ Existing

(* the calls issued for upstream PR n with operation op on ref *)
CallsOn(op, ref, n) == {k \in CallsFor(op, n) : calls[k].ref = ref}

(* C17: a create-PR call comes after the base branch was found on the fork
   remote, or fetched and pushed to it, and after the successful fetch and the
   successful push of the head, in that order; when the base branch cannot be
   made available or the head fetch or push fails, no create-PR call is
   issued, the PR is counted as failed and the loop goes on. *)
C17_CreatePath ==
    /\ \A c \in DOMAIN calls :
          calls[c].op = "pr create" =>
              LET n == calls[c].n
                  bn == calls[c].ref
                  base == UpstreamOf(n).baseRefName
              IN  /\ base \in DOMAIN origin
                  /\ \E l \in CallsOn("ls-remote", base, n) :
                     \E f \in CallsOn("fetch", bn, n) :
                     \E g \in CallsOn("push", bn, n) :
                        /\ l < f /\ f < g /\ g < c
                        /\ calls[f].ok /\ calls[g].ok
                        /\ \/ calls[l].ok /\ CallsOn("fetch", base, n) = {}
                           \/ \E x \in CallsOn("fetch", base, n) :
                              \E y \in CallsOn("push", base, n) :
                                 /\ l < x /\ x < y /\ y < f
                                 /\ calls[x].ok /\ calls[y].ok
    /\ \A r \in New :
          LET n == results[r].number
          IN  (\E k \in DOMAIN calls :
                  calls[k].n = n /\ ~calls[k].ok /\ calls[k].op \in {"fetch", "push"}) =>
                  /\ ~Issued("pr create", n)
                  /\ results[r].result = "failed"
                  /\ failed > 0
                  /\ pc \in {"sweep", "done"} => Len(results) = Len(upstream_prs)

C17_Witness ==
    /\ pc = "done"
    /\ Len(results) = 2
    /\ results[1].result = "failed" /\ ~Issued("pr create", results[1].number)
    /\ Issued("fetch", results[1].number)
    /\ results[2].result = "created"

(* the draft calls issued for upstream PR n *)
DraftCalls(n) == CallsFor("convert-draft", n) \cup CallsFor("pr ready", n)

(* C18 as claimed: in every metadata update the 'convert to draft' call is
   issued exactly when upstream is draft and the mirror is not, the 'mark
   ready' call exactly when upstream is not draft and the mirror is; at most
   one of them is issued, and after a successful one the flags are equal. *)
C18_DraftDirection ==
    \A r \in MetadataStarted :
        LET n == results[r].number
            p == UpstreamOf(n)
            e == fork_prs[results[r].branch]
        IN  /\ Issued("convert-draft", n) <=> (p.isDraft /\ ~e.isDraft)
            /\ Issued("pr ready", n) <=> (~p.isDraft /\ e.isDraft)
            /\ Cardinality(DraftCalls(n)) <= 1
            /\ (\E k \in DraftCalls(n) : calls[k].ok) => fork[e.number].isDraft = p.isDraft

(* C18 amended: in a metadata update whose title/body edit succeeded the
   'convert to draft' call is issued exactly when upstream is draft and the
   mirror is not, the 'mark ready' call exactly when upstream is not draft and
   the mirror is; when the edit failed, or no metadata update was started, no
   draft call is issued; at most one of them is issued for a PR, and after a
   successful one the flags are equal. *)
C18_DraftDirectionAfterEdit ==
    \A r \in DOMAIN results :
        LET n == results[r].number
            p == UpstreamOf(n)
            draft == DraftCalls(n)
        IN  /\ Cardinality(draft) <= 1
            /\ IF Succeeded("pr edit", n)
               THEN LET e == fork_prs[results[r].branch]
                    IN  /\ Issued("convert-draft", n) <=> (p.isDraft /\ ~e.isDraft)
                        /\ Issued("pr ready", n) <=> (~p.isDraft /\ e.isDraft)
                        /\ (\E k \in draft : calls[k].ok)
                              => fork[e.number].isDraft = p.isDraft
               ELSE draft = {}

C18_Witness ==
    \E r \in MetadataStarted :
        LET n == results[r].number
        IN  /\ Succeeded("convert-draft", n)
            /\ UpstreamOf(n).isDraft
            /\ ~fork_prs[results[r].branch].isDraft
            /\ fork[fork_prs[results[r].branch].number].isDraft

(* the branch names the fetched upstream list gives *)
ExpectedNames ==
    {get_branch_name(upstream_prs[k], upstream_prs) : k \in DOMAIN upstream_prs}

(* the fork PRs the two fetched lists make stale *)
CloseSet == {ToString(fork_prs[b].number) : b \in DOMAIN fork_prs \ ExpectedNames}

(* C19: the fork PRs a close call is issued for are those the two fetched lists
   determine, whatever the outcome of the per-PR actions; no close call is
   issued for a fork PR on the branch name of a processed upstream PR, failed
   or not, and a PR created in the run stays open. *)
C19_CloseSetFixed ==
    /\ \A k \in DOMAIN calls : calls[k].op = "pr close" => calls[k].ref \in CloseSet
    /\ pc = "done" =>
          {calls[k].ref : k \in {x \in DOMAIN calls : calls[x].op = "pr close"}} = CloseSet
    /\ \A r \in DOMAIN results : \A k \in DOMAIN fork_list :
          fork_list[k].headRefName = results[r].branch =>
              /\ ~CloseIssued(fork_list[k].number)
              /\ fork[fork_list[k].number].state = "OPEN"
    /\ \A k \in DOMAIN calls :
          (calls[k].op = "pr create" /\ calls[k].ok) =>
              \E f \in OpenPRs(fork) :
                  f.headRefName = calls[k].ref /\ ~CloseIssued(f.number)

C19_Witness ==
    /\ pc = "done"
    /\ \E r \in Existing : results[r].result = "failed"
    /\ \E r \in New : results[r].result = "created"
    /\ \E k \in DOMAIN calls : calls[k].op = "pr close"

WriteOps == {"push", "pr create", "pr edit", "add-label", "remove-label",
             "convert-draft", "pr ready", "pr close"}

(* C20: every call on the upstream repository or the upstream remote is a list
   or a fetch; every write call names the fork repository, the fork remote or
   the node id of a fork PR; the upstream PRs are as they were fetched. *)
C20_UpstreamReadOnly ==
    /\ \A k \in DOMAIN calls :
          LET c == calls[k]
              on_upstream == c.target = UPSTREAM_REPO \/ c.target = "upstream"
          IN  IF c.op \in WriteOps
              THEN /\ ~on_upstream
                   /\ c.target = FORK_REPO \/ c.target = "origin"
                   /\ c.op = "convert-draft" => \E n \in DOMAIN fork : fork[n].id = c.ref
              ELSE on_upstream => (c.op = "pr list" \/ c.op = "fetch")
    /\ \A x \in DOMAIN upstream_prs : upstream_prs[x] \in upstream

C20_Witness ==
    /\ pc = "done"
    /\ \A op \in WriteOps \ {"convert-draft"} : \E k \in DOMAIN calls : calls[k].op = op
    /\ \E k \in DOMAIN calls : ~calls[k].ok

====
